---- MODULE Spec2Model ----
(***************************************************************************)
(* Spotilize (src/app/app.py): one request to the /choose route.  The      *)
(* handler collects the user's saved and/or top tracks page by page,       *)
(* resolves audio features in batches, clusters the feature vectors and    *)
(* writes one private playlist per non-empty cluster.  Every call to the   *)
(* catalog (spotipy client) is one step; the catalog's answers are the     *)
(* nondeterminism of the model.  `calls` records the calls the catalog     *)
(* received and `playlists` is the catalog's playlist store.               *)
(***************************************************************************)
EXTENDS Integers, Sequences, FiniteSets, TLC

\* ---------------------------------------------------------------- bounds
MaxPages == 3          \* saved-tracks pages served before the end is signalled
MaxTopPages == 2       \* top-tracks pages served before the end is signalled
MaxK == 2              \* largest cluster_count the form submits

\* ------------------------------------------------------ program constants
PAGE_LIMIT == 50       \* limit = 50 (fetch_liked_songs, fetch_top_songs)
FEATURE_BATCH == 100   \* range(0, len(track_ids), 100)
ADD_BATCH == 100       \* range(0, len(track_list), 100)
DEFAULT_CLUSTERS == 2  \* cluster_count=2

\* ------------------------------------------------------------ sequences
Last(s) == s[Len(s)]

\* Python slice s[i:i+n] for a 0-based start i
Slice(s, i, n) ==
    SubSeq(s, i + 1, IF i + n < Len(s) THEN i + n ELSE Len(s))

RECURSIVE Flatten(_)
Flatten(ss) == IF ss = <<>> THEN <<>> ELSE Head(ss) \o Flatten(Tail(ss))

SeqRange(s) == { s[k] : k \in 1..Len(s) }

\* --------------------------------------------------- records of the catalog
\* identifiers: positive integers; a missing/None id and the empty string
\* are the two falsy identifiers
NoneId == 0
EmptyId == -1
\* mutant: only a missing id counts as no id, the empty string passes
Truthy_NoneOnly(id) == id # NoneId

Truthy(id) == id \notin {NoneId, EmptyId}

TrackRec(id) == [kind |-> "track", id |-> id]
NullTrack == [kind |-> "null", id |-> NoneId]
Wrapper(tr) == [kind |-> "wrapper", track |-> tr]

\* the kinds of malformed record: a wrapper whose track is null, a track
\* without id, a track whose id is the empty string
BadKinds == <<"null_track", "no_id", "empty_id">>
FlatBadKinds == <<"no_id", "empty_id">>

\* the track of a malformed record, by kind of malformation
BadTrack(bad, id) ==
    CASE bad = "null_track" -> NullTrack
      [] bad = "no_id"      -> TrackRec(NoneId)
      [] bad = "empty_id"   -> TrackRec(EmptyId)
      [] OTHER              -> TrackRec(id)

NoNext == "None"
NextUrl == "url"

\* A page of the saved-tracks listing: n items for positions offset+1 ..
\* offset+n, each wrapped under "track".  A malformed page starts with one
\* record of each malformed kind.
SavedPage(offset, n, malformed, next) ==
    [items |-> [j \in 1..n |->
                  Wrapper(IF malformed /\ j <= Len(BadKinds)
                          THEN BadTrack(BadKinds[j], offset + j)
                          ELSE TrackRec(offset + j))],
     next  |-> next]

\* first identifier (minus one) of the top tracks that are not saved tracks
TopBase == 10 * PAGE_LIMIT

\* A page of the top-tracks listing: flat track records.  The ranking starts
\* at identifier base+1: with base = 0 the top tracks are saved tracks too.
TopPage(offset, n, malformed, base, next) ==
    [items |-> [j \in 1..n |->
                  IF malformed /\ j <= Len(FlatBadKinds)
                  THEN BadTrack(FlatBadKinds[j], base + offset + j)
                  ELSE TrackRec(base + offset + j)],
     next  |-> next]

\* The audio-features object of a track; None is a record with present = FALSE.
\* Values are scaled integers (thousandths; tempo in BPM); two kinds of sound.
FeatureOf(id) ==
    IF id % 2 = 0
    THEN [present |-> TRUE, id |-> id, danceability |-> 800, energy |-> 900,
          valence |-> 700, tempo |-> 128]
    ELSE [present |-> TRUE, id |-> id, danceability |-> 300, energy |-> 200,
          valence |-> 400, tempo |-> 72]
NoneFeature ==
    [present |-> FALSE, id |-> NoneId, danceability |-> 0, energy |-> 0,
     valence |-> 0, tempo |-> 0]

\* which results of a batch come back empty: none, the first, or (in the
\* first batch of a run) the last
AbsentPatterns(i) == IF i = 0 THEN {"none", "first", "last"} ELSE {"none", "first"}
IsAbsent(pattern, k, n) ==
    \/ pattern = "first" /\ k = 1
    \/ pattern = "last" /\ k = n

\* answer of the service to audio_features(batch): one result per identifier
FeatureResponse(batch, pattern) ==
    [k \in 1..Len(batch) |->
        IF IsAbsent(pattern, k, Len(batch)) THEN NoneFeature
        ELSE FeatureOf(batch[k])]


\* The pages the saved-tracks listing may answer at `offset`: a page that
\* announces a next page is full; the last page is short or full, and empty
\* when the library is.  Malformed records are served on the first page only,
\* followed by one well-formed record.
SavedPages(offset) ==
    LET pageNo == offset \div PAGE_LIMIT + 1
    IN  { SavedPage(offset, PAGE_LIMIT, FALSE, NextUrl) : x \in
              IF pageNo < MaxPages THEN {1} ELSE {} }
        \cup { SavedPage(offset, PAGE_LIMIT, FALSE, NoNext),
               SavedPage(offset, 2, FALSE, NoNext) }
        \cup ( IF offset = 0
               THEN { SavedPage(offset, 0, FALSE, NoNext),
                      SavedPage(offset, Len(BadKinds), TRUE, NoNext),
                      SavedPage(offset, Len(BadKinds) + 1, TRUE, NoNext) }
               ELSE {} )

\* The pages the top-tracks listing may answer at `offset`.  A short first
\* page ranks saved tracks (base 0) or starts with malformed records; the
\* other pages rank tracks that are not saved.
TopPages(offset) ==
    LET pageNo == offset \div PAGE_LIMIT + 1
    IN  { TopPage(offset, PAGE_LIMIT, FALSE, TopBase, NextUrl) : x \in
              IF pageNo < MaxTopPages THEN {1} ELSE {} }
        \cup { TopPage(offset, PAGE_LIMIT, FALSE, TopBase, NoNext) }
        \cup ( IF offset = 0
               THEN { TopPage(offset, 0, FALSE, 0, NoNext),
                      TopPage(offset, 2, FALSE, 0, NoNext),
                      TopPage(offset, Len(FlatBadKinds) + 1, TRUE, TopBase, NoNext) }
               ELSE { TopPage(offset, 2, FALSE, TopBase, NoNext) } )

\* ------------------------------------------------------- get_spotify_client
\* mutant: after a failed refresh a client is built from the stale token
GetSpotifyClient_StaleToken(tok, refresh_ok) ==
    IF tok = "none" THEN [sp |-> FALSE, token |-> tok]
    ELSE IF tok = "expired" /\ refresh_ok THEN [sp |-> TRUE, token |-> "valid"]
    ELSE [sp |-> TRUE, token |-> tok]

\* token_info in the session: "none", "valid" or "expired"; a refresh stores
\* a valid token.
\* Returns whether a client is built and the token the session holds after.
GetSpotifyClient(tok, refresh_ok) ==
    IF tok = "none" THEN [sp |-> FALSE, token |-> tok]
    ELSE IF tok = "expired"
         THEN IF refresh_ok THEN [sp |-> TRUE, token |-> "valid"]
              ELSE [sp |-> FALSE, token |-> tok]
         ELSE [sp |-> TRUE, token |-> tok]

\* ------------------------------------------------------ collectors (41-63)
\* mutant: the loop ends on a short page instead of on the sentinel
IsLastPage_ShortPage(page) == Len(page.items) < PAGE_LIMIT

\* mutant: the sentinel is never recognised
IsLastPage_Never(page) == FALSE

\* liked['next'] is None
IsLastPage(page) == page.next = NoNext

\* offset += limit
NextOffset(offset) == offset + PAGE_LIMIT

\* ------------------------------------------- cluster_and_create_playlists
\* track = t.get('track', t)
TrackOfItem(t) == IF t.kind = "wrapper" THEN t.track ELSE t

\* if track and track.get('id')
HasId(t) == LET track == TrackOfItem(t) IN track.kind # "null" /\ Truthy(track.id)

\* lines 85-91: identifiers of the records that have one, in order
ExtractTrackIds(tracks) ==
    LET kept == SelectSeq(tracks, HasId)
    IN  SelectSeq([k \in 1..Len(kept) |-> TrackOfItem(kept[k]).id], Truthy)

\* batch = [tid for tid in track_ids[i:i+100] if tid]
Batch(track_ids, i) == SelectSeq(Slice(track_ids, i, FEATURE_BATCH), Truthy)

\* mutant: empty results are not discarded
FilterFeatures_KeepsEmpty(features) == features

\* return [f for f in features if f]
IsFeature(f) == f.present
FilterFeatures(features) == SelectSeq(features, IsFeature)

\* X = np.array([[f['danceability'], f['energy'], f['valence'], f['tempo']] ...
Vector(f) == <<f.danceability, f.energy, f.valence, f.tempo>>
FeatureMatrix(features) == [k \in 1..Len(features) |-> Vector(features[k])]

\* KMeans(n_clusters=K).fit_predict(X) raises unless 1 <= K <= number of rows
KMeansAccepts(K, X) == K >= 1 /\ K <= Len(X)

\* the label vectors fit_predict may return: one label in 0..K-1 per row,
\* equal rows labelled alike
Labelings(K, X) ==
    { [k \in 1..Len(X) |-> m[X[k]]] : m \in [SeqRange(X) -> 0..(K - 1)] }

\* clustered_tracks[label].append(track_ids[idx]), idx 0-based
AssignedId(track_ids, features, idx) == track_ids[idx + 1]

\* lines 103-105
ClusterTracks(K, labels, track_ids, features) ==
    [c \in 0..(K - 1) |->
        LET idxs == SelectSeq([k \in 1..Len(labels) |-> k - 1],
                              LAMBDA idx : labels[idx + 1] = c)
        IN  [k \in 1..Len(idxs) |-> AssignedId(track_ids, features, idxs[k])]]

\* playlist_name = f"Cluster {cluster_label + 1} Playlist"
PlaylistName(cluster_label) ==
    [prefix |-> "Cluster ", number |-> cluster_label + 1, suffix |-> " Playlist"]

\* mutant: empty clusters are not skipped
SkipCluster_Never(track_list) == FALSE

\* if not track_list: continue
SkipCluster(track_list) == track_list = <<>>

\* the first cluster at or after `from` that the loop of line 108 does not
\* skip; K when there is none
RECURSIVE NextCluster(_, _, _)
NextCluster(clustered, K, from) ==
    IF from >= K THEN K
    ELSE IF SkipCluster(clustered[from]) THEN NextCluster(clustered, K, from + 1)
    ELSE from

\* mutant: the slice is one item too long, batches overlap
AddBatch_Overlap(track_list, i) == Slice(track_list, i, ADD_BATCH + 1)

\* mutant: the slice is one item short, the last item of a full batch is lost
AddBatch_Short(track_list, i) == Slice(track_list, i, ADD_BATCH - 1)

\* items=track_list[i:i+100]
AddBatch(track_list, i) == Slice(track_list, i, ADD_BATCH)

\* ------------------------------------------------------------ the handler
\* flash(message, category); args carries the names joined into the message
Flash(message, category, args) ==
    [message |-> message, category |-> category, args |-> args]

FlashLogin == Flash("Please login first.", "warning", <<>>)
FlashNoSongs == Flash("No songs found in the selected category.", "warning", <<>>)
FlashNoFeatures ==
    Flash("Could not create playlists. No valid track features.", "danger", <<>>)
FlashCreated(names) == Flash("Created playlists: ", "success", names)
FlashError == Flash("An error occurred while processing your songs.", "danger", <<>>)

Choices == {"liked", "top", "both", "none"}
WantsLiked(choice) == choice \in {"liked", "both"}
WantsTop(choice) == choice \in {"top", "both"}

VARIABLES
    token_info,        \* session["token_info"]
    method,            \* request.method
    pc,                \* position of the handler
    choice,            \* request.form "song_choice"
    cluster_count,     \* request.form "cluster_count"
    user_id,           \* sp.current_user()["id"]
    tracks,            \* choose: tracks
    results,           \* collector: results
    offset,            \* collector: offset
    track_ids,         \* cluster_and_create_playlists: track_ids
    features,          \* get_audio_features: features, then its return value
    fi,                \* get_audio_features: i
    labels,            \* kmeans.fit_predict(X)
    clustered_tracks,  \* cluster index -> identifiers
    cluster_label,     \* position of the loop of line 108
    ai,                \* i of the loop of line 113
    created_playlists, \* names of the playlists completed
    playlists,         \* the catalog's playlists written by this run
    calls,             \* calls received by the catalog, in order
    flashes,           \* notices flashed to the user
    response           \* what the request ended with

vars == <<token_info, method, pc, choice, cluster_count, user_id, tracks,
          results, offset, track_ids, features, fi, labels, clustered_tracks,
          cluster_label, ai, created_playlists, playlists, calls, flashes,
          response>>

locals == <<tracks, results, offset, track_ids, features, fi, labels,
            clustered_tracks, cluster_label, ai, created_playlists>>

UserId == "user"

Init ==
    /\ token_info \in {"none", "valid", "expired"}
    /\ method \in {"GET", "POST"}
    /\ pc = "start"
    /\ choice = "none"
    /\ cluster_count = DEFAULT_CLUSTERS
    /\ user_id = ""
    /\ tracks = <<>>
    /\ results = <<>>
    /\ offset = 0
    /\ track_ids = <<>>
    /\ features = <<>>
    /\ fi = 0
    /\ labels = <<>>
    /\ clustered_tracks = <<>>
    /\ cluster_label = 0
    /\ ai = 0
    /\ created_playlists = <<>>
    /\ playlists = <<>>
    /\ calls = <<>>
    /\ flashes = <<>>
    /\ response = "pending"

\* the request ends: flash (if any) and the response
Finish(notice, resp) ==
    /\ flashes' = flashes \o notice
    /\ response' = resp
    /\ pc' = "done"

\* mutant: the failure is swallowed and the handler goes on with what it has
Unhandled_Swallowed ==
    /\ flashes' = flashes
    /\ response' = response
    /\ pc' = "collected"

\* an exception leaves the handler: the framework answers, nothing is flashed
Unhandled == Finish(<<>>, "unhandled_exception")

\* lines 151-154: no client
ChooseNoClient ==
    /\ pc = "start"
    /\ \E refresh_ok \in BOOLEAN :
         LET got == GetSpotifyClient(token_info, refresh_ok)
         IN  /\ ~got.sp
             /\ token_info' = got.token
    /\ Finish(<<FlashLogin>>, "redirect_index")
    /\ UNCHANGED <<method, choice, cluster_count, user_id, locals, playlists, calls>>

\* lines 151-156, 183: GET renders the form
ChooseGet ==
    /\ pc = "start"
    /\ method = "GET"
    /\ \E refresh_ok \in BOOLEAN :
         LET got == GetSpotifyClient(token_info, refresh_ok)
         IN  /\ got.sp
             /\ token_info' = got.token
    /\ Finish(<<>>, "render_choose")
    /\ UNCHANGED <<method, choice, cluster_count, user_id, locals, playlists, calls>>

\* lines 151-158: POST reads the form
ChoosePost ==
    /\ pc = "start"
    /\ method = "POST"
    /\ \E refresh_ok \in BOOLEAN :
         LET got == GetSpotifyClient(token_info, refresh_ok)
         IN  /\ got.sp
             /\ token_info' = got.token
    /\ \E c \in Choices, k \in 1..MaxK :
         /\ choice' = c
         /\ cluster_count' = k
    /\ pc' = "current_user"
    /\ UNCHANGED <<method, user_id, locals, playlists, calls, flashes, response>>

\* where the handler goes once a source is collected or skipped
AfterUser(c) == IF WantsLiked(c) THEN "liked" ELSE IF WantsTop(c) THEN "top" ELSE "collected"
AfterLiked(c) == IF WantsTop(c) THEN "top" ELSE "collected"

\* line 159
CurrentUserOk ==
    /\ pc = "current_user"
    /\ calls' = Append(calls, [op |-> "current_user", ok |-> TRUE])
    /\ user_id' = UserId
    /\ pc' = AfterUser(choice)
    /\ UNCHANGED <<token_info, method, choice, cluster_count, locals, playlists,
                   flashes, response>>

CurrentUserFail ==
    /\ pc = "current_user"
    /\ calls' = Append(calls, [op |-> "current_user", ok |-> FALSE])
    /\ Unhandled
    /\ UNCHANGED <<token_info, method, choice, cluster_count, user_id, locals,
                   playlists>>

PageCall(op, off, ok, page) ==
    [op |-> op, limit |-> PAGE_LIMIT, offset |-> off, ok |-> ok, page |-> page]
NoPage == [items |-> <<>>, next |-> NoNext]

\* lines 46-51 and 163: one page of saved tracks
LikedPageOk ==
    /\ pc = "liked"
    /\ \E page \in SavedPages(offset) :
         /\ calls' = Append(calls, PageCall("saved_tracks", offset, TRUE, page))
         /\ IF IsLastPage(page)
            THEN /\ tracks' = tracks \o (results \o page.items)
                 /\ results' = <<>>
                 /\ offset' = 0
                 /\ pc' = AfterLiked(choice)
            ELSE /\ results' = results \o page.items
                 /\ offset' = NextOffset(offset)
                 /\ pc' = "liked"
                 /\ UNCHANGED tracks
    /\ UNCHANGED <<token_info, method, choice, cluster_count, user_id, track_ids,
                   features, fi, labels, clustered_tracks, cluster_label, ai,
                   created_playlists, playlists, flashes, response>>

LikedPageFail ==
    /\ pc = "liked"
    /\ calls' = Append(calls, PageCall("saved_tracks", offset, FALSE, NoPage))
    /\ Unhandled
    /\ UNCHANGED <<token_info, method, choice, cluster_count, user_id, locals,
                   playlists>>

\* lines 58-63 and 165: one page of top tracks
TopPageOk ==
    /\ pc = "top"
    /\ \E page \in TopPages(offset) :
         /\ calls' = Append(calls, PageCall("top_tracks", offset, TRUE, page))
         /\ IF IsLastPage(page)
            THEN /\ tracks' = tracks \o (results \o page.items)
                 /\ results' = <<>>
                 /\ offset' = 0
                 /\ pc' = "collected"
            ELSE /\ results' = results \o page.items
                 /\ offset' = NextOffset(offset)
                 /\ pc' = "top"
                 /\ UNCHANGED tracks
    /\ UNCHANGED <<token_info, method, choice, cluster_count, user_id, track_ids,
                   features, fi, labels, clustered_tracks, cluster_label, ai,
                   created_playlists, playlists, flashes, response>>

TopPageFail ==
    /\ pc = "top"
    /\ calls' = Append(calls, PageCall("top_tracks", offset, FALSE, NoPage))
    /\ Unhandled
    /\ UNCHANGED <<token_info, method, choice, cluster_count, user_id, locals,
                   playlists>>

\* mutant: the failure is absorbed and the names created so far are reported
Caught_ReportsCreated ==
    Finish(<<FlashCreated(created_playlists)>>, "redirect_index")

\* an exception raised inside the try of lines 171-179
Caught == Finish(<<FlashError>>, "redirect_index")

\* lines 167-169: nothing collected
NoSongs ==
    /\ pc = "collected"
    /\ tracks = <<>>
    /\ Finish(<<FlashNoSongs>>, "redirect_choose")
    /\ UNCHANGED <<token_info, method, choice, cluster_count, user_id, locals,
                   playlists, calls>>

\* lines 172, 81-94: the identifiers are extracted and the feature loop starts
ExtractIds ==
    /\ pc = "collected"
    /\ tracks # <<>>
    /\ track_ids' = ExtractTrackIds(tracks)
    /\ features' = <<>>
    /\ fi' = 0
    /\ pc' = "features"
    /\ UNCHANGED <<token_info, method, choice, cluster_count, user_id, tracks,
                   results, offset, labels, clustered_tracks, cluster_label, ai,
                   created_playlists, playlists, calls, flashes, response>>

FeatureCall(ids, ok, result) ==
    [op |-> "audio_features", ids |-> ids, ok |-> ok, result |-> result]

\* lines 67-71: a batch is resolved
AudioFeaturesOk ==
    /\ pc = "features"
    /\ fi < Len(track_ids)
    /\ LET batch == Batch(track_ids, fi)
       IN  \E pattern \in AbsentPatterns(fi) :
             LET batch_features == FeatureResponse(batch, pattern)
             IN  /\ calls' = Append(calls, FeatureCall(batch, TRUE, batch_features))
                 /\ features' = features \o batch_features
    /\ fi' = fi + FEATURE_BATCH
    /\ UNCHANGED <<token_info, method, pc, choice, cluster_count, user_id, tracks,
                   results, offset, track_ids, labels, clustered_tracks,
                   cluster_label, ai, created_playlists, playlists, flashes,
                   response>>

\* lines 72-77: the lookup raises, the batch is skipped
AudioFeaturesFail ==
    /\ pc = "features"
    /\ fi < Len(track_ids)
    /\ calls' = Append(calls, FeatureCall(Batch(track_ids, fi), FALSE, <<>>))
    /\ fi' = fi + FEATURE_BATCH
    /\ UNCHANGED <<token_info, method, pc, choice, cluster_count, user_id, tracks,
                   results, offset, track_ids, features, labels, clustered_tracks,
                   cluster_label, ai, created_playlists, playlists, flashes,
                   response>>

\* lines 78, 95-97: get_audio_features returns; without features the run ends
ReturnFeatures ==
    /\ pc = "features"
    /\ fi >= Len(track_ids)
    /\ features' = FilterFeatures(features)
    /\ IF FilterFeatures(features) = <<>>
       THEN Finish(<<FlashNoFeatures>>, "redirect_index")
       ELSE /\ pc' = "kmeans"
            /\ UNCHANGED <<flashes, response>>
    /\ UNCHANGED <<token_info, method, choice, cluster_count, user_id, tracks,
                   results, offset, track_ids, fi, labels, clustered_tracks,
                   cluster_label, ai, created_playlists, playlists, calls>>

\* lines 99-110: clustering, the assignment of identifiers, and the loop of
\* line 108 up to its first playlist
KMeansFit ==
    /\ pc = "kmeans"
    /\ KMeansAccepts(cluster_count, FeatureMatrix(features))
    /\ \E lab \in Labelings(cluster_count, FeatureMatrix(features)) :
         LET clustered == ClusterTracks(cluster_count, lab, track_ids, features)
         IN  /\ labels' = lab
             /\ clustered_tracks' = clustered
             /\ cluster_label' = NextCluster(clustered, cluster_count, 0)
    /\ created_playlists' = <<>>
    /\ ai' = 0
    /\ pc' = "create"
    /\ UNCHANGED <<token_info, method, choice, cluster_count, user_id, tracks,
                   results, offset, track_ids, features, fi, playlists, calls,
                   flashes, response>>

\* lines 100-101, 177-179: fit_predict raises
KMeansRaise ==
    /\ pc = "kmeans"
    /\ ~KMeansAccepts(cluster_count, FeatureMatrix(features))
    /\ Caught
    /\ UNCHANGED <<token_info, method, choice, cluster_count, user_id, locals,
                   playlists, calls>>

CreateCall(name, ok) ==
    [op |-> "playlist_create", user |-> user_id, name |-> name, public |-> FALSE,
     ok |-> ok]
AddCall(pid, items, ok) ==
    [op |-> "add_items", playlist_id |-> pid, items |-> items, ok |-> ok]

\* lines 111-112: the playlist of the current cluster is created
CreateOk ==
    /\ pc = "create"
    /\ LET name == PlaylistName(cluster_label)
       IN  /\ calls' = Append(calls, CreateCall(name, TRUE))
           /\ playlists' = Append(playlists,
                  [id |-> Len(playlists) + 1, name |-> name, owner |-> user_id,
                   public |-> FALSE, items |-> <<>>])
    /\ ai' = 0
    /\ pc' = "add"
    /\ UNCHANGED <<token_info, method, choice, cluster_count, user_id, tracks,
                   results, offset, track_ids, features, fi, labels,
                   clustered_tracks, cluster_label, created_playlists, flashes,
                   response>>

CreateFail ==
    /\ pc = "create"
    /\ calls' = Append(calls, CreateCall(PlaylistName(cluster_label), FALSE))
    /\ Caught
    /\ UNCHANGED <<token_info, method, choice, cluster_count, user_id, locals,
                   playlists>>

\* lines 113-117, 173-176: a batch is inserted; after the last batch of the
\* cluster the loop moves to the next non-empty cluster or returns
AddOk ==
    /\ pc = "add"
    /\ LET track_list == clustered_tracks[cluster_label]
           items == AddBatch(track_list, ai)
           pid == Len(playlists)
           names == Append(created_playlists, PlaylistName(cluster_label))
           nxt == NextCluster(clustered_tracks, cluster_count, cluster_label + 1)
       IN  /\ calls' = Append(calls, AddCall(pid, items, TRUE))
           /\ playlists' = [playlists EXCEPT ![pid].items = @ \o items]
           /\ IF ai + ADD_BATCH < Len(track_list)
              THEN /\ ai' = ai + ADD_BATCH
                   /\ UNCHANGED <<pc, cluster_label, created_playlists, flashes,
                                  response>>
              ELSE /\ ai' = 0
                   /\ created_playlists' = names
                   /\ cluster_label' = nxt
                   /\ IF nxt < cluster_count
                      THEN /\ pc' = "create"
                           /\ UNCHANGED <<flashes, response>>
                      ELSE IF names = <<>>
                           THEN Finish(<<FlashNoFeatures>>, "redirect_index")
                           ELSE Finish(<<FlashCreated(names)>>, "redirect_index")
    /\ UNCHANGED <<token_info, method, choice, cluster_count, user_id, tracks,
                   results, offset, track_ids, features, fi, labels,
                   clustered_tracks>>

AddFail ==
    /\ pc = "add"
    /\ calls' = Append(calls,
           AddCall(Len(playlists), AddBatch(clustered_tracks[cluster_label], ai), FALSE))
    /\ Caught
    /\ UNCHANGED <<token_info, method, choice, cluster_count, user_id, locals,
                   playlists>>

Next ==
    \/ ChooseNoClient
    \/ ChooseGet
    \/ ChoosePost
    \/ CurrentUserOk
    \/ CurrentUserFail
    \/ LikedPageOk
    \/ LikedPageFail
    \/ TopPageOk
    \/ TopPageFail
    \/ NoSongs
    \/ ExtractIds
    \/ AudioFeaturesOk
    \/ AudioFeaturesFail
    \/ ReturnFeatures
    \/ KMeansFit
    \/ KMeansRaise
    \/ CreateOk
    \/ CreateFail
    \/ AddOk
    \/ AddFail

Spec == Init /\ [][Next]_vars

\* the handler is a sequential program: it keeps taking its next step, and
\* every catalog call returns or fails
FairSpec == Spec /\ WF_vars(Next)

\* ------------------------------------------------------------------------
\* Properties
\* ------------------------------------------------------------------------
CallsOf(op) == SelectSeq(calls, LAMBDA c : c.op = op)
FeatureCalls == CallsOf("audio_features")
Ids(fs) == [k \in 1..Len(fs) |-> fs[k].id]
Count(s, x) == Cardinality({ k \in 1..Len(s) : s[k] = x })
Min(a, b) == IF a < b THEN a ELSE b

\* the identifiers placed in the clusters, cluster after cluster
Placed == Flatten([c \in 1..cluster_count |-> clustered_tracks[c - 1]])

\* get_audio_features has returned
LookupDone == track_ids # <<>> /\ pc # "features"

\* the clusters have been filled (line 105 is behind)
Clustered == labels # <<>>

\* C1: after clustering, the identifiers in the per-cluster sequences are
\* exactly the extracted identifiers whose feature vector was resolved, each
\* of them once.
C1_ClustersHoldExactlyResolved ==
    Clustered =>
        /\ SeqRange(Placed) = SeqRange(Ids(features))
        /\ \A id \in SeqRange(Placed) : Count(Placed, id) = 1

\* position of row i (1-based) inside its cluster's sequence
PosInCluster(i) == Cardinality({ j \in 1..i : labels[j] = labels[i] })

\* C2: for every row i of the feature matrix, the identifier appended to
\* cluster labels[i] is the identifier feature i was fetched for.
C2_AssignmentIsAligned ==
    Clustered =>
        \A i \in 1..Len(labels) :
            clustered_tracks[labels[i]][PosInCluster(i)] = features[i].id

\* the batches get_audio_features has to request, in order
ExpectedBatches ==
    [k \in 1..((Len(track_ids) + FEATURE_BATCH - 1) \div FEATURE_BATCH) |->
        SubSeq(track_ids, (k - 1) * FEATURE_BATCH + 1,
               Min(k * FEATURE_BATCH, Len(track_ids)))]

FailedBatches == { k \in 1..Len(FeatureCalls) : ~FeatureCalls[k].ok }
IdsOfSuccessfulBatches ==
    UNION { SeqRange(FeatureCalls[k].ids) :
              k \in (1..Len(FeatureCalls)) \ FailedBatches }
MaterializeFailed ==
    \E k \in 1..Len(calls) :
        calls[k].op \in {"playlist_create", "add_items"} /\ ~calls[k].ok

\* C3: when one lookup batch fails and the others succeed, every batch is
\* requested exactly once in order (no abort, no retry), the run ends with
\* playlists created unless a later step fails, and no identifier outside
\* the successful batches is inserted into a playlist.
C3_FailedBatchIsDropped ==
    (Cardinality(FailedBatches) = 1 /\ Len(FeatureCalls) >= 2) =>
        /\ LookupDone =>
             [k \in 1..Len(FeatureCalls) |-> FeatureCalls[k].ids] = ExpectedBatches
        /\ (pc = "done" /\ Clustered /\ ~MaterializeFailed) =>
             /\ response = "redirect_index"
             /\ flashes = <<FlashCreated(created_playlists)>>
        /\ \A k \in 1..Len(playlists) :
             SeqRange(playlists[k].items) \subseteq IdsOfSuccessfulBatches

\* the identifiers of a successful lookup whose result is not empty, in order
ResolvedOf(c) ==
    LET pos == SelectSeq([j \in 1..Len(c.ids) |-> j],
                         LAMBDA j : j <= Len(c.result) /\ c.result[j].present)
    IN  [k \in 1..Len(pos) |-> c.ids[pos[k]]]

\* the occurrences of the input that survive (their batch succeeded and their
\* result is not empty), in input order
SurvivingIds ==
    LET fc == FeatureCalls
    IN  IF [k \in 1..Len(fc) |-> fc[k].ids] # ExpectedBatches THEN <<>>
        ELSE Flatten([k \in 1..Len(fc) |->
                        IF fc[k].ok THEN ResolvedOf(fc[k]) ELSE <<>>])

\* C4 as stated: the output of get_audio_features is no longer than its
\* input, keeps the surviving input order, and every identifier whose batch
\* succeeded with a non-empty result appears in it exactly once.
C4_EachResolvedIdOnce ==
    LookupDone =>
        /\ Len(features) <= Len(track_ids)
        /\ Ids(features) = SurvivingIds
        /\ \A id \in SeqRange(SurvivingIds) : Count(Ids(features), id) = 1

\* C4 amended: the output of get_audio_features is no longer than its input
\* and is exactly the surviving occurrences of the input in input order, so
\* an identifier appears once per surviving occurrence.
C4_OutputIsSurvivingOccurrences ==
    LookupDone =>
        /\ Len(features) <= Len(track_ids)
        /\ Ids(features) = SurvivingIds
        /\ \A k \in 1..Len(features) : features[k].present

\* two batches, an empty result dropped, and an identifier that survives twice
C4_Witness ==
    /\ LookupDone
    /\ Len(FeatureCalls) = 2
    /\ Len(features) > FEATURE_BATCH
    /\ Len(features) < Len(track_ids)
    /\ \E id \in SeqRange(SurvivingIds) : Count(SurvivingIds, id) > 1

\* ------------------------------------------------------------ collection
SavedCalls == CallsOf("saved_tracks")
TopCalls == CallsOf("top_tracks")
ItemsOf(pages) == Flatten([k \in 1..Len(pages) |-> pages[k].page.items])

\* the requests of one source: limit 50 at offsets 0, 50, 100, ..., and none
\* after a failed request or a page without next
PagedInOrder(pages) ==
    /\ \A k \in 1..Len(pages) :
         /\ pages[k].limit = 50
         /\ pages[k].offset = 50 * (k - 1)
    /\ \A k \in 1..(Len(pages) - 1) :
         pages[k].ok /\ pages[k].page.next # NoNext

\* the source was read to its end
ReadToEnd(pages) ==
    pages # <<>> /\ Last(pages).ok /\ Last(pages).page.next = NoNext

\* C5: each collector requests pages with limit 50 at offsets 0, 50, 100,
\* ..., stops at the first page whose next is None, and returns exactly the
\* concatenation of the items of the pages it requested, in order.
C5_CollectorsConcatenatePages ==
    /\ PagedInOrder(SavedCalls)
    /\ PagedInOrder(TopCalls)
    /\ pc = "liked" => /\ results = ItemsOf(SavedCalls)
                       /\ ~ReadToEnd(SavedCalls)
    /\ pc = "top" => /\ results = ItemsOf(TopCalls)
                     /\ ~ReadToEnd(TopCalls)
                     /\ tracks = ItemsOf(SavedCalls)
    /\ (pc \in {"collected", "features", "kmeans", "create", "add"}
          \/ (pc = "done" /\ response \in {"redirect_index", "redirect_choose"}
                /\ method = "POST" /\ flashes # <<FlashLogin>>)) =>
         /\ tracks = ItemsOf(SavedCalls) \o ItemsOf(TopCalls)
         /\ WantsLiked(choice) <=> ReadToEnd(SavedCalls)
         /\ WantsTop(choice) <=> ReadToEnd(TopCalls)
         /\ ~WantsLiked(choice) => SavedCalls = <<>>
         /\ ~WantsTop(choice) => TopCalls = <<>>

C5_Witness ==
    /\ pc = "collected"
    /\ Len(SavedCalls) >= 3
    /\ Len(TopCalls) = 1
    /\ Len(TopCalls[1].page.items) = 2
    /\ Len(tracks) = 3 * 50 + 2

\* --------------------------------------------------------- materialization
CreateCalls == CallsOf("playlist_create")
AddCalls == CallsOf("add_items")

\* the clusters that hold a track, in ascending order, and their names
NonEmptyClusters ==
    SelectSeq([c \in 1..cluster_count |-> c - 1],
              LAMBDA c : clustered_tracks[c] # <<>>)
ExpectedNames ==
    [k \in 1..Len(NonEmptyClusters) |->
        [prefix |-> "Cluster ", number |-> NonEmptyClusters[k] + 1,
         suffix |-> " Playlist"]]

\* C6: playlist creation is called once per non-empty cluster and never for
\* an empty one, in ascending cluster order, private, owned by the user and
\* named "Cluster {index+1} Playlist"; the names returned (and reported) are
\* those of the non-empty clusters in that order.
C6_OnePlaylistPerNonEmptyCluster ==
    /\ ~Clustered => CreateCalls = <<>>
    /\ Clustered =>
         /\ Len(CreateCalls) <= Len(ExpectedNames)
         /\ \A k \in 1..Len(CreateCalls) :
              /\ CreateCalls[k].name = ExpectedNames[k]
              /\ CreateCalls[k].public = FALSE
              /\ CreateCalls[k].user = UserId
         /\ created_playlists = SubSeq(ExpectedNames, 1, Len(created_playlists))
         /\ (pc = "done" /\ ~MaterializeFailed) =>
              /\ Len(CreateCalls) = Len(ExpectedNames)
              /\ created_playlists = ExpectedNames
              /\ flashes = <<FlashCreated(ExpectedNames)>>

C6_Witness ==
    /\ pc = "done"
    /\ Clustered
    /\ ~MaterializeFailed
    /\ cluster_count = 2
    /\ clustered_tracks[0] = <<>>
    /\ Len(CreateCalls) = 1
    /\ CreateCalls[1].name.number = 2

\* successful creations among the first n calls
CreatedBefore(n) ==
    Cardinality({ k \in 1..n : calls[k].op = "playlist_create" /\ calls[k].ok })

\* what the successful insertions put into playlist pid, in call order
InsertedInto(pid) ==
    LET mine == SelectSeq(AddCalls, LAMBDA c : c.ok /\ c.playlist_id = pid)
    IN  Flatten([k \in 1..Len(mine) |-> mine[k].items])

IsPrefix(s, t) == Len(s) <= Len(t) /\ s = SubSeq(t, 1, Len(s))

\* C7: every insertion call goes to the playlist created last (after its
\* creation, before the next one), carries 1 to 100 identifiers, and the
\* batches of a playlist, concatenated in call order, are the cluster's
\* track sequence.
C7_InsertionBatches ==
    /\ \A k \in 1..Len(calls) :
         calls[k].op = "add_items" =>
            /\ Len(calls[k].items) >= 1
            /\ Len(calls[k].items) <= 100
            /\ calls[k].playlist_id >= 1
            /\ calls[k].playlist_id = CreatedBefore(k - 1)
    /\ Clustered =>
         /\ Len(playlists) <= Len(NonEmptyClusters)
         /\ \A j \in 1..Len(playlists) :
              LET track_list == clustered_tracks[NonEmptyClusters[j]]
              IN  /\ playlists[j].items = InsertedInto(j)
                  /\ IsPrefix(InsertedInto(j), track_list)
                  /\ j <= Len(created_playlists) => InsertedInto(j) = track_list

C7_Witness ==
    /\ pc = "done"
    /\ Len(created_playlists) = 2
    /\ Len(playlists[1].items) > 100
    /\ Len(SelectSeq(AddCalls, LAMBDA c : c.playlist_id = 1)) = 2

\* the catalog's playlists as the successful calls wrote them
RECURSIVE Replay(_)
Replay(cs) ==
    IF cs = <<>> THEN <<>>
    ELSE LET before == Replay(SubSeq(cs, 1, Len(cs) - 1))
             c == Last(cs)
         IN  IF c.op = "playlist_create" /\ c.ok
             THEN Append(before, [id |-> Len(before) + 1, name |-> c.name,
                                  owner |-> c.user, public |-> c.public,
                                  items |-> <<>>])
             ELSE IF c.op = "add_items" /\ c.ok
             THEN [before EXCEPT ![c.playlist_id].items = @ \o c.items]
             ELSE before

\* C8: a failed creation or insertion is the last call of the run, the
\* failure leaves cluster_and_create_playlists (the handler reports an
\* error), and the catalog keeps everything the successful calls wrote.
C8_FailureAbortsWithoutRollback ==
    /\ playlists = Replay(calls)
    /\ \A k \in 1..Len(calls) :
         (calls[k].op \in {"playlist_create", "add_items"} /\ ~calls[k].ok) =>
            /\ k = Len(calls)
            /\ pc = "done"
            /\ response = "redirect_index"
            /\ flashes = <<FlashError>>

C8_Witness ==
    /\ pc = "done"
    /\ MaterializeFailed
    /\ Last(calls).op = "add_items"
    /\ Len(playlists) = 2
    /\ playlists[1].items = clustered_tracks[0]
    /\ Len(playlists[2].items) = 100
    /\ Len(clustered_tracks[1]) > 100

\* -------------------------------------------------------------- failures
CatalogCallFailed ==
    \E k \in 1..Len(calls) :
        /\ calls[k].op \in {"current_user", "saved_tracks", "top_tracks",
                            "playlist_create", "add_items"}
        /\ ~calls[k].ok

\* C9: in the POST handler a failed catalog call (current user, a page of
\* saved or top tracks, playlist creation, item insertion) ends the request
\* with a failure notice and a redirect, never with an unhandled exception.
C9_FailuresEndWithNotice ==
    CatalogCallFailed =>
        /\ pc = "done"
        /\ response \in {"redirect_index", "redirect_choose"}
        /\ \E k \in 1..Len(flashes) : flashes[k].category = "danger"

PageFailed ==
    \E k \in 1..Len(calls) :
        calls[k].op \in {"saved_tracks", "top_tracks"} /\ ~calls[k].ok

\* C10: when a page request fails the run ends there: the failed request is
\* its last catalog call, nothing of the failed source reaches the collected
\* tracks, and there is no feature lookup, playlist creation or insertion.
C10_PageFailureEndsRun ==
    PageFailed =>
        /\ pc = "done"
        /\ ~Last(calls).ok
        /\ Last(calls).op \in {"saved_tracks", "top_tracks"}
        /\ tracks = (IF Last(calls).op = "saved_tracks" THEN <<>>
                     ELSE ItemsOf(SavedCalls))
        /\ FeatureCalls = <<>>
        /\ CreateCalls = <<>>
        /\ AddCalls = <<>>
        /\ playlists = <<>>

C10_Witness ==
    /\ PageFailed
    /\ Len(TopCalls) = 2
    /\ TopCalls[1].ok
    /\ Len(tracks) > 50

\* ------------------------------------------------------ degenerate inputs
\* some lookup returned a non-empty result
SomeResolved ==
    \E k \in 1..Len(FeatureCalls) :
        /\ FeatureCalls[k].ok
        /\ \E j \in 1..Len(FeatureCalls[k].result) : FeatureCalls[k].result[j].present

\* the collection is over and the handler has gone past line 165
PastCollection ==
    \/ pc \in {"kmeans", "create", "add"}
    \/ /\ pc = "done"
       /\ method = "POST"
       /\ response \in {"redirect_index", "redirect_choose"}
       /\ flashes # <<[message |-> "Please login first.", category |-> "warning",
                       args |-> <<>>]>>

\* C11: when no track was collected or no feature vector is resolved, the
\* run ends with the "no playlists" outcome: clustering is not invoked, no
\* playlist is created, nothing is inserted, and the notice is not the one
\* of a technical failure.
C11_NothingResolvedMeansNoPlaylists ==
    (PastCollection /\ ~SomeResolved) =>
        /\ pc = "done"
        /\ labels = <<>>
        /\ clustered_tracks = <<>>
        /\ CreateCalls = <<>>
        /\ AddCalls = <<>>
        /\ playlists = <<>>
        /\ Len(flashes) = 1
        /\ flashes[1].message # "An error occurred while processing your songs."
        /\ flashes[1].message =
             (IF tracks = <<>> THEN "No songs found in the selected category."
              ELSE "Could not create playlists. No valid track features.")

\* two batches were requested, one failed and the other resolved nothing
C11_Witness ==
    /\ pc = "done"
    /\ Len(FeatureCalls) = 2
    /\ FailedBatches # {}
    /\ \E k \in 1..2 : FeatureCalls[k].ok
    /\ ~SomeResolved
    /\ flashes = <<FlashNoFeatures>>

\* every lookup succeeded and every result was non-empty
AllResolved ==
    \A k \in 1..Len(FeatureCalls) :
        /\ FeatureCalls[k].ok
        /\ \A j \in 1..Len(FeatureCalls[k].result) : FeatureCalls[k].result[j].present

\* everything inserted by the successful insertion calls, in call order
AllInserted ==
    LET oks == SelectSeq(AddCalls, LAMBDA c : c.ok)
    IN  Flatten([k \in 1..Len(oks) |-> oks[k].items])

\* the identifiers of the collected records, computed record by record
IdOfRecord(t) ==
    IF t.kind = "wrapper"
    THEN (IF t.track.kind = "track" THEN t.track.id ELSE 0)
    ELSE IF t.kind = "track" THEN t.id ELSE 0
CollectedIds ==
    SelectSeq([k \in 1..Len(tracks) |-> IdOfRecord(tracks[k])], LAMBDA id : id > 0)

\* C12: end to end, when every lookup succeeds and every track resolves (and
\* no catalog call fails), every collected identifier is inserted exactly
\* once, at most K playlists are created, every insertion carries at most
\* 100 identifiers, and a playlist receives its cluster in order.
C12_EveryCollectedIdInsertedOnce ==
    (pc = "done" /\ PastCollection /\ FeatureCalls # <<>> /\ AllResolved
       /\ ~MaterializeFailed) =>
        /\ \A id \in SeqRange(CollectedIds) : Count(AllInserted, id) = 1
        /\ SeqRange(AllInserted) = SeqRange(CollectedIds)
        /\ Len(playlists) <= cluster_count
        /\ \A k \in 1..Len(AddCalls) : Len(AddCalls[k].items) <= 100
        /\ \A j \in 1..Len(playlists) :
             playlists[j].items = clustered_tracks[playlists[j].name.number - 1]

\* ------------------------------------------------------- lookup requests
\* C14: every lookup request carries 1 to 100 identifiers, none of them
\* missing or empty; the records without identifier (flat, wrapped, or a
\* wrapper whose track is null) are left out, and the batches are the
\* remaining identifiers in order, each once.
C14_LookupsCarryValidIds ==
    /\ \A k \in 1..Len(FeatureCalls) :
         /\ Len(FeatureCalls[k].ids) >= 1
         /\ Len(FeatureCalls[k].ids) <= 100
         /\ \A j \in 1..Len(FeatureCalls[k].ids) : FeatureCalls[k].ids[j] > 0
    /\ LET requested ==
             Flatten([k \in 1..Len(FeatureCalls) |-> FeatureCalls[k].ids])
       IN  /\ IsPrefix(requested, CollectedIds)
           /\ \A k \in 1..(Len(FeatureCalls) - 1) : Len(FeatureCalls[k].ids) = 100
           /\ PastCollection => requested = CollectedIds

\* malformed records of both shapes were collected and a lookup was made
C14_Witness ==
    /\ pc = "kmeans"
    /\ \E k \in 1..Len(tracks) :
         tracks[k].kind = "wrapper" /\ tracks[k].track.kind = "null"
    /\ \E k \in 1..Len(tracks) :
         tracks[k].kind = "wrapper" /\ tracks[k].track.kind = "track"
            /\ tracks[k].track.id = -1
    /\ \E k \in 1..Len(tracks) : tracks[k].kind = "track" /\ tracks[k].id = 0
    /\ \E k \in 1..Len(tracks) : tracks[k].kind = "track" /\ tracks[k].id = -1
    /\ Len(FeatureCalls) = 1
    /\ Len(FeatureCalls[1].ids) = 2

\* ------------------------------------------------------------- the client
LoginNotice ==
    <<[message |-> "Please login first.", category |-> "warning", args |-> <<>>]>>

\* without a usable token the request ends at once, with no catalog call
NoClientNoCalls ==
    (pc # "start" /\ token_info \in {"none", "expired"}) =>
        /\ pc = "done"
        /\ calls = <<>>
        /\ flashes = LoginNotice
        /\ response = "redirect_index"

\* the stored token changes only from expired to a refreshed one, and the
\* login notice leaves it as it was
TokenStep ==
    /\ token_info' # token_info =>
         /\ token_info = "expired"
         /\ token_info' = "valid"
         /\ flashes' = <<>>
    /\ flashes' = LoginNotice => token_info' = token_info

\* C15: with no stored token, or an expired token whose refresh fails, no
\* client is built, the stored token is unchanged, the handler makes no
\* catalog call and answers with the login notice; the stored token is
\* replaced only by a refreshed one.
C15_FailsClosed == [](NoClientNoCalls) /\ [][TokenStep]_vars

C15_Witness ==
    /\ pc = "done"
    /\ method = "POST"
    /\ token_info = "expired"
    /\ flashes = LoginNotice
    /\ calls = <<>>

\* ------------------------------------------------------------ termination
\* a collection loop goes on exactly when the page it just got announces a
\* next page
LoopStep ==
    /\ pc = "liked" =>
         /\ Last(calls').op = "saved_tracks"
         /\ pc' = "liked" <=> (Last(calls').ok /\ Last(calls').page.next # NoNext)
    /\ pc = "top" =>
         /\ Last(calls').op = "top_tracks"
         /\ pc' = "top" <=> (Last(calls').ok /\ Last(calls').page.next # NoNext)

\* C16: when every catalog call returns or fails and every source signals
\* its end after finitely many pages, the run reaches a final outcome; a
\* collection loop ends only on a page without next or a failed request.
C16_RunTerminates ==
    /\ <>(pc = "done")
    /\ [](pc = "done" => response # "pending")
    /\ [][LoopStep]_vars

C16_Witness ==
    /\ pc = "done"
    /\ Len(SavedCalls) = 3
    /\ Len(TopCalls) = 2
    /\ Len(flashes) = 1
    /\ flashes[1].category = "success"

\* ---------------------------------------------------------------- K > N
\* C17: when more clusters are requested than feature vectors are resolved,
\* the run does not end in an error: playlists are created for the non-empty
\* clusters.
C17_SurplusClustersAreEmpty ==
    (pc = "done" /\ PastCollection /\ SomeResolved /\ ~MaterializeFailed
       /\ cluster_count > Len(features)) =>
        /\ Len(flashes) = 1
        /\ flashes[1].category = "success"
        /\ Len(playlists) >= 1
        /\ Len(playlists) <= Len(features)

====
